---- MODULE Spec2Model ----
(***************************************************************************)
(* A model of awscfncli's configuration loader (config/config.py):        *)
(* CfnCliConfig.load / _load_config, StackConfig.update,                  *)
(* CfnCliConfig.search_stacks and StackConfig.to_boto3_format.            *)
(*                                                                         *)
(* Python strings whose characters matter (identifiers, patterns,         *)
(* template names, mapping keys) are sequences of one-character strings.  *)
(* Python lists and dicts are objects: a value of that kind is a          *)
(* reference into `heap`, so that two holders of one object see each      *)
(* other's in-place changes (list.extend, dict.update).                   *)
(***************************************************************************)
EXTENDS Integers, Sequences, FiniteSets, TLC

VARIABLES
    config,        \* the parsed document, as written in the file
    heap,          \* the list and dict objects of the parsed document
    pc,            \* position of the load
    _stages,       \* CfnCliConfig._stages
    stages,        \* _load_config's local `stages`
    stacks,        \* _load_config's local `stacks`
    stage_idx,     \* position of the loop over config['Stages']
    stack_idx,     \* position of the loop over the stage's stacks
    blueprint,     \* _load_config's local `blueprint`
    stack_config,  \* the stack's raw properties after the two pops
    new_config,    \* the StackConfig under construction (line 117)
    err,           \* the exception that ended the load, if any
    ret            \* the last call of search_stacks / to_boto3_format

vars == <<config, heap, pc, _stages, stages, stacks, stage_idx, stack_idx,
          blueprint, stack_config, new_config, err, ret>>

(***************************************************************************)
(* Bounds of the model.                                                    *)
(***************************************************************************)
MaxStacks == 3       \* stacks of a document whose stacks are ordered
MaxOrder == 2        \* greatest Order of a stack
MaxExtending == 2    \* stacks of a document whose stacks extend a blueprint

(***************************************************************************)
(* Python values.                                                          *)
(***************************************************************************)
None == [type |-> "NoneType"]
PyStr(s) == [type |-> "str", s |-> s]
PyInt(n) == [type |-> "int", i |-> n]
PyBool(b) == [type |-> "bool", b |-> b]
PyList(items) == [type |-> "list", items |-> items]
PyDict(map) == [type |-> "dict", map |-> map]

IsObject(v) == v.type \in {"list", "dict"}

\* The place in the document where a list or dict object was parsed.
Loc(bp, i, j, k) == [bp |-> bp, stage |-> i, stack |-> j, key |-> k]

Ref(type, loc) == [type |-> type, ref |-> loc]

Deref(v, h) == IF IsObject(v) THEN h[v.ref] ELSE v

\* The empty dict.
EmptyMap == [x \in {} |-> x]

\* yaml.safe_load gives every list and mapping of the text its own object:
\* the layer as Python holds it carries references.
Live(layer, bp, i, j) ==
    [k \in DOMAIN layer |->
        IF IsObject(layer[k]) THEN Ref(layer[k].type, Loc(bp, i, j, k))
        ELSE layer[k]]

(***************************************************************************)
(* StackConfig.PROPERTIES: property name -> val_type (the default of      *)
(* every property is None).                                                *)
(***************************************************************************)
PROPERTIES ==
    [StackName |-> "str",
     Profile |-> "str",
     Region |-> "str",
     Package |-> "bool",
     ArtifactStore |-> "str",
     Template |-> "str",
     Parameters |-> "dict",
     DisableRollback |-> "bool",
     RollbackConfiguration |-> "dict",
     TimeoutInMinutes |-> "int",
     NotificationARNs |-> "str",
     Capabilities |-> "list",
     ResourceTypes |-> "list",
     RoleARN |-> "str",
     OnFailure |-> "str",
     StackPolicy |-> "str",
     Tags |-> "dict",
     ClientRequestToken |-> "str",
     EnableTerminationProtection |-> "bool"]

PropertyNames == DOMAIN PROPERTIES

\* The shape the document schema gives each property's value
\* (NotificationARNs is a list of strings in a valid document).
SchemaCategory(k) ==
    IF k = "NotificationARNs" THEN "list" ELSE PROPERTIES[k]

(***************************************************************************)
(* The documents the model loads.                                          *)
(***************************************************************************)
DigitChars == <<"0", "1", "2", "3", "4", "5", "6", "7", "8", "9">>

StageId(i) == <<"s", DigitChars[i + 1]>>
StackId(j) == <<(IF j % 2 = 1 THEN "a" ELSE "b"), DigitChars[j + 1]>>

T_local == <<"t", ".", "y">>
T_other == <<"u", ".", "y">>
T_https == <<"h", "t", "t", "p", "s", ":", "/", "/", "x">>
T_http == <<"h", "t", "t", "p", ":", "/", "/", "x">>
T_httpd == <<"h", "t", "t", "p", "d", ".", "y">>
T_gone == <<"g", "o", "n", "e", ".", "y">>

P_DENY_ALL == <<"D", "E", "N", "Y", "_", "A", "L", "L">>
P_ALLOW_ALL == <<"A", "L", "L", "O", "W", "_", "A", "L", "L">>
P_ALLOW_MODIFY ==
    <<"A", "L", "L", "O", "W", "_", "M", "O", "D", "I", "F", "Y">>
P_DENY_DELETE == <<"D", "E", "N", "Y", "_", "D", "E", "L", "E", "T", "E">>
P_bogus == <<"d", "e", "n", "y", "_", "a", "l", "l">>

B_name == <<"b">>
X_name == <<"x">>

\* Values a layer may carry for property k when blueprint and stack both
\* carry it.
MergeValues(k) ==
    CASE k = "Capabilities" ->
            {PyList(<<"CAPABILITY_IAM">>), PyList(<<"CAPABILITY_NAMED_IAM">>)}
      [] k = "Template" -> {PyStr(T_local), PyStr(T_other)}
      [] k = "StackPolicy" ->
            {PyStr(P_DENY_ALL), PyStr(P_ALLOW_ALL)}
      [] SchemaCategory(k) = "list" /\ k # "Capabilities" ->
            {PyList(<<"a", "b">>), PyList(<<"c">>)}
      [] SchemaCategory(k) = "dict" ->
            {PyDict(<<"A">> :> PyInt(1) @@ <<"B">> :> PyInt(2)),
             PyDict(<<"B">> :> PyInt(3) @@ <<"C">> :> PyInt(4))}
      [] SchemaCategory(k) = "bool" -> {PyBool(TRUE), PyBool(FALSE)}
      [] SchemaCategory(k) = "int" -> {PyInt(5), PyInt(30)}
      [] OTHER -> {PyStr(<<"u">>), PyStr(<<"v">>)}

\* Values a single stack may carry for property k when its request is
\* normalized.
RequestValues(k) ==
    CASE k = "Capabilities" -> {PyList(<<>>), PyList(<<"CAPABILITY_IAM">>)}
      [] k = "StackPolicy" -> {PyStr(P_DENY_ALL), PyStr(P_bogus)}
      [] k = "Package" -> {PyBool(TRUE), PyBool(FALSE)}
      [] SchemaCategory(k) = "list" /\ k # "Capabilities" ->
            {PyList(<<>>), PyList(<<"a">>)}
      [] SchemaCategory(k) = "dict" ->
            {PyDict(EmptyMap),
             PyDict(<<"b">> :> PyInt(2) @@ <<"a">> :> PyStr(<<"x">>)),
             PyDict(<<"a", "b">> :> PyBool(TRUE) @@ <<"a">> :> PyInt(10)
                    @@ <<"B">> :> PyBool(FALSE))}
      [] SchemaCategory(k) = "bool" -> {PyBool(TRUE)}
      [] SchemaCategory(k) = "int" -> {PyInt(5)}
      [] OTHER -> {PyStr(<<"u">>)}

\* The layers that carry at most property k, with a value of V.
Carry(k, V) == {EmptyMap} \cup {k :> v : v \in V}

\* The sequences of length 0..n over S.
SeqsUpTo(S, n) == UNION {[1..m -> S] : m \in 0..n}

\* A stage of the document.  The stages and the stacks of a stage are
\* sequences: the order in which the dicts of the document are iterated.
Stage(i, raws) ==
    [id |-> StageId(i),
     stacks |-> [j \in 1..Len(raws) |-> [id |-> StackId(j), raw |-> raws[j]]]]

\* A blueprint and the stacks that extend it, all carrying at most one
\* property: the merge of two layers.
MergeDocuments ==
    {[Blueprints |-> B_name :> bp, Stages |-> <<Stage(1, raws)>>] :
        <<bp, raws>> \in UNION {
            Carry(k, MergeValues(k)) \X
            (SeqsUpTo({("Extends" :> PyStr(B_name)) @@ l
                       @@ ("Template" :> PyStr(T_local)) :
                         l \in Carry(k, MergeValues(k))},
                      MaxExtending) \ {<<>>})
            : k \in PropertyNames}}

\* One or two stages of stacks with orders, at most MaxStacks stacks in
\* all: what search_stacks sorts.
OrderDocuments ==
    {[Blueprints |-> EmptyMap,
      Stages |-> [i \in 1..Len(ss) |->
                    Stage(i, [j \in 1..Len(ss[i]) |->
                                "Order" :> PyInt(ss[i][j])
                                @@ "Template" :> PyStr(T_local)])]] :
        ss \in {ss \in SeqsUpTo(SeqsUpTo(0..MaxOrder, MaxStacks), 2) :
                  \/ Len(ss) <= 1
                  \/ Len(ss) = 2 /\ Len(ss[1]) + Len(ss[2]) <= MaxStacks}}

\* One stack whose request is normalized.
RequestDocuments ==
    {[Blueprints |-> EmptyMap, Stages |-> <<Stage(1, <<t @@ p @@ l>>)>>] :
        <<t, p, l>> \in UNION {
            Carry("Template", {PyStr(T_local), PyStr(T_https), PyStr(T_http),
                               PyStr(T_httpd), PyStr(T_gone)})
            \X Carry("Package", {PyBool(TRUE), PyBool(FALSE)})
            \X Carry(k, RequestValues(k))
            : k \in PropertyNames}}

\* Stacks that extend a blueprint, present or not.
ExtendsDocuments ==
    {[Blueprints |-> bps, Stages |-> <<Stage(1, raws)>>] :
        <<bps, raws>> \in
            {EmptyMap, B_name :> ("Region" :> PyStr(<<"u">>))}
            \X (SeqsUpTo({e @@ ("Template" :> PyStr(T_local)) :
                            e \in Carry("Extends",
                                        {PyStr(B_name), PyStr(X_name),
                                         PyStr(<<>>)})},
                         MaxExtending) \ {<<>>})}

Documents ==
    MergeDocuments \cup OrderDocuments \cup RequestDocuments
    \cup ExtendsDocuments

\* The schema validation of load (line 53): the shape of the document.
\* Every property has a value of its category, Extends is a string and
\* Order an integer.
validate_config(d) ==
    LET shaped(layer) ==
            \A k \in DOMAIN layer \ {"Extends", "Order"} :
                /\ k \in PropertyNames
                /\ layer[k].type = SchemaCategory(k)
    IN  /\ \A b \in DOMAIN d.Blueprints :
             /\ shaped(d.Blueprints[b])
             /\ DOMAIN d.Blueprints[b] \cap {"Extends", "Order"} = {}
        /\ \A i \in 1..Len(d.Stages) : \A j \in 1..Len(d.Stages[i].stacks) :
             LET raw == d.Stages[i].stacks[j].raw
             IN  /\ shaped(raw)
                 /\ "Extends" \in DOMAIN raw => raw["Extends"].type = "str"
                 /\ "Order" \in DOMAIN raw => raw["Order"].type = "int"

\* The objects yaml.safe_load creates for the document d.
ParsedObjects(d) ==
    LET bpLocs == {Loc(b, 0, 0, k) : <<b, k>> \in
                     UNION {{b} \X {k \in DOMAIN d.Blueprints[b] :
                                      IsObject(d.Blueprints[b][k])} :
                            b \in DOMAIN d.Blueprints}}
        stLocs == UNION {UNION {
                     {Loc(<<>>, i, j, k) :
                        k \in {k \in DOMAIN d.Stages[i].stacks[j].raw :
                                 IsObject(d.Stages[i].stacks[j].raw[k])}} :
                     j \in 1..Len(d.Stages[i].stacks)} :
                     i \in 1..Len(d.Stages)}
    IN  [l \in bpLocs \cup stLocs |->
            IF l.stage = 0 THEN d.Blueprints[l.bp][l.key]
            ELSE d.Stages[l.stage].stacks[l.stack].raw[l.key]]

NoConfig == [stage_id |-> <<>>, stack_id |-> <<>>, stack_order |-> 0,
             basedir |-> <<>>, properties |-> EmptyMap]

NoCall == [op |-> "none"]

Init ==
    /\ config \in {d \in Documents : validate_config(d)}
    /\ heap = ParsedObjects(config)
    /\ pc = "start"
    /\ _stages = <<>>
    /\ stages = <<>>
    /\ stacks = <<>>
    /\ stage_idx = 0
    /\ stack_idx = 0
    /\ blueprint = EmptyMap
    /\ stack_config = EmptyMap
    /\ new_config = NoConfig
    /\ err = None
    /\ ret = NoCall

(***************************************************************************)
(* StackConfig.update                                                      *)
(***************************************************************************)
\* merge_rule with the first value of a scalar kept.
merge_rule_first_wins(k, current) ==
    IF current = None THEN "replace"
    ELSE IF k = "Capabilities" THEN "replace"
    ELSE IF PROPERTIES[k] = "list" THEN "extend"
    ELSE IF PROPERTIES[k] = "dict" THEN "update"
    ELSE "keep"

\* merge_rule without the special case of Capabilities.
merge_rule_capabilities_extend(k, current) ==
    IF current = None THEN "replace"
    ELSE IF PROPERTIES[k] = "list" THEN "extend"
    ELSE IF PROPERTIES[k] = "dict" THEN "update"
    ELSE "replace"

\* What update does with a property that params carries (lines 180-191).
merge_rule(k, current) ==
    IF current = None THEN "replace"
    ELSE IF k = "Capabilities" THEN "replace"
    ELSE IF PROPERTIES[k] = "list" THEN "extend"
    ELSE IF PROPERTIES[k] = "dict" THEN "update"
    ELSE "replace"

\* list.extend, on the items of the two lists.
list_extend(existing, incoming) == existing \o incoming

\* dict_update with the existing value kept for a key both mappings have.
dict_update_existing_wins(existing, incoming) ==
    [key \in DOMAIN existing \cup DOMAIN incoming |->
        IF key \in DOMAIN existing THEN existing[key] ELSE incoming[key]]

\* dict.update, on the two mappings.
dict_update(existing, incoming) ==
    [key \in DOMAIN existing \cup DOMAIN incoming |->
        IF key \in DOMAIN incoming THEN incoming[key] ELSE existing[key]]

\* update(**params) on a StackConfig whose _properties is `properties`:
\* the new _properties and the new contents of the objects.  Assignment
\* stores the incoming value itself (for a list or dict, the reference);
\* extend and update change the object _properties refers to, in place.
update(properties, params, h) ==
    LET carried == {k \in PropertyNames : k \in DOMAIN params}
        rule(k) == merge_rule(k, properties[k])
        touched(l) == {k \in carried :
                         /\ rule(k) \in {"extend", "update"}
                         /\ properties[k].ref = l}
    IN  [properties |->
            [k \in PropertyNames |->
                IF k \in carried /\ rule(k) = "replace" THEN params[k]
                ELSE properties[k]],
         heap |->
            [l \in DOMAIN h |->
                IF touched(l) = {} THEN h[l]
                ELSE LET k == CHOOSE k \in touched(l) : TRUE
                     IN  IF rule(k) = "extend"
                         THEN PyList(list_extend(h[l].items,
                                                 Deref(params[k], h).items))
                         ELSE PyDict(dict_update(h[l].map,
                                                 Deref(params[k], h).map))]]

\* StackConfig.__init__
StackConfig(stage_id, stack_id, stack_order, basedir) ==
    [stage_id |-> stage_id, stack_id |-> stack_id,
     stack_order |-> stack_order, basedir |-> basedir,
     properties |-> [k \in PropertyNames |-> None]]

(***************************************************************************)
(* CfnCliConfig.load and _load_config                                      *)
(***************************************************************************)
Filename == <<"d", "/", "c">>

\* os.path.dirname: everything before the last "/".
dirname(path) ==
    LET slashes == {p \in 1..Len(path) : path[p] = "/"}
    IN  IF slashes = {} THEN <<>>
        ELSE LET last == CHOOSE p \in slashes : \A q \in slashes : q <= p
             IN  IF last = 1 THEN <<"/">> ELSE SubSeq(path, 1, last - 1)

\* Python truth value of a scalar.
Truthy(v) ==
    CASE v.type = "NoneType" -> FALSE
      [] v.type = "str" -> v.s # <<>>
      [] v.type = "bool" -> v.b
      [] v.type = "int" -> v.i # 0
      [] OTHER -> TRUE

\* dict.pop(key, default) on a raw stack: the value.
pop(raw, key, default) == IF key \in DOMAIN raw THEN raw[key] ELSE default

\* dict.pop(key, default) on a raw stack: what is left.
popped(raw, key) == [k \in DOMAIN raw \ {key} |-> raw[k]]

CurStage == config.Stages[stage_idx]
CurStack == CurStage.stacks[stack_idx]

\* load, lines 42-54, up to the entry of _load_config (lines 92-94).
Load ==
    /\ pc = "start"
    /\ pc' = "stages"
    /\ stages' = <<>>
    /\ stage_idx' = 1
    /\ UNCHANGED <<config, heap, _stages, stacks, stack_idx, blueprint,
                   stack_config, new_config, err, ret>>

\* One turn of the loop over the stages (lines 95-98).
StageBegin ==
    /\ pc = "stages"
    /\ stage_idx <= Len(config.Stages)
    /\ stacks' = <<>>
    /\ stack_idx' = 1
    /\ pc' = "stacks"
    /\ UNCHANGED <<config, heap, _stages, stages, stage_idx, blueprint,
                   stack_config, new_config, err, ret>>

\* Lines 99-118: find the blueprint, pop the order, construct the
\* StackConfig; a missing blueprint raises ConfigError out of load.
StackBegin ==
    /\ pc = "stacks"
    /\ stack_idx <= Len(CurStage.stacks)
    /\ LET raw == Live(CurStack.raw, <<>>, stage_idx, stack_idx)
           blueprint_id == pop(raw, "Extends", None)
           stack_order == pop(popped(raw, "Extends"), "Order", PyInt(0))
       IN  IF Truthy(blueprint_id)
              /\ blueprint_id.s \notin DOMAIN config.Blueprints
           THEN /\ pc' = "failed"
                /\ err' = [type |-> "ConfigError", s |-> blueprint_id.s]
                /\ UNCHANGED <<blueprint, stack_config, new_config>>
           ELSE /\ pc' = "update_blueprint"
                /\ blueprint' =
                     IF Truthy(blueprint_id)
                     THEN Live(config.Blueprints[blueprint_id.s],
                               blueprint_id.s, 0, 0)
                     ELSE EmptyMap
                /\ stack_config' = popped(popped(raw, "Extends"), "Order")
                /\ new_config' = StackConfig(CurStage.id, CurStack.id,
                                             stack_order.i,
                                             dirname(Filename))
                /\ err' = err
    /\ UNCHANGED <<config, heap, _stages, stages, stacks, stage_idx,
                   stack_idx, ret>>

\* Line 119: config.update(**blueprint)
UpdateBlueprint ==
    /\ pc = "update_blueprint"
    /\ LET u == update(new_config.properties, blueprint, heap)
       IN  /\ new_config' = [new_config EXCEPT !.properties = u.properties]
           /\ heap' = u.heap
    /\ pc' = "update_stack"
    /\ UNCHANGED <<config, _stages, stages, stacks, stage_idx, stack_idx,
                   blueprint, stack_config, err, ret>>

\* Line 120: config.update(**stack_config)
UpdateStack ==
    /\ pc = "update_stack"
    /\ LET u == update(new_config.properties, stack_config, heap)
       IN  /\ new_config' = [new_config EXCEPT !.properties = u.properties]
           /\ heap' = u.heap
    /\ pc' = "store"
    /\ UNCHANGED <<config, _stages, stages, stacks, stage_idx, stack_idx,
                   blueprint, stack_config, err, ret>>

\* Line 122: stacks[stack_id] = config
StoreStack ==
    /\ pc = "store"
    /\ stacks' = Append(stacks, new_config)
    /\ stack_idx' = stack_idx + 1
    /\ pc' = "stacks"
    /\ UNCHANGED <<config, heap, _stages, stages, stage_idx, blueprint,
                   stack_config, new_config, err, ret>>

\* Line 124: stages[stage_id] = stacks
StageEnd ==
    /\ pc = "stacks"
    /\ stack_idx > Len(CurStage.stacks)
    /\ stages' = Append(stages, [id |-> CurStage.id, stacks |-> stacks])
    /\ stage_idx' = stage_idx + 1
    /\ pc' = "stages"
    /\ UNCHANGED <<config, heap, _stages, stacks, stack_idx, blueprint,
                   stack_config, new_config, err, ret>>

\* Line 126 and line 54: self._stages = self._load_config(config)
LoadReturn ==
    /\ pc = "stages"
    /\ stage_idx > Len(config.Stages)
    /\ _stages' = stages
    /\ pc' = "loaded"
    /\ UNCHANGED <<config, heap, stages, stacks, stage_idx, stack_idx,
                   blueprint, stack_config, new_config, err, ret>>

(***************************************************************************)
(* CfnCliConfig.search_stacks                                              *)
(***************************************************************************)
\* fnmatch.fnmatchcase for patterns of literal characters, "*" and "?".
RECURSIVE fnmatchcase(_, _)
fnmatchcase(name, pat) ==
    IF pat = <<>> THEN name = <<>>
    ELSE IF Head(pat) = "*"
    THEN \/ fnmatchcase(name, Tail(pat))
         \/ name # <<>> /\ fnmatchcase(Tail(name), pat)
    ELSE IF name = <<>> THEN FALSE
    ELSE /\ Head(pat) = "?" \/ Head(pat) = Head(name)
         /\ fnmatchcase(Tail(name), Tail(pat))

\* The loops of lines 72-79 over an index: the matches in encounter order.
RECURSIVE matching_stacks(_, _, _)
matching_stacks(index, stage_pattern, stack_pattern) ==
    IF index = <<>> THEN <<>>
    ELSE (IF fnmatchcase(Head(index).id, stage_pattern)
          THEN SelectSeq(Head(index).stacks,
                         LAMBDA c : fnmatchcase(c.stack_id, stack_pattern))
          ELSE <<>>)
         \o matching_stacks(Tail(index), stage_pattern, stack_pattern)

\* sort_by_stack_order with each element placed before its equals.
RECURSIVE sort_by_stack_order_ties_reversed(_)
sort_by_stack_order_ties_reversed(result) ==
    IF result = <<>> THEN <<>>
    ELSE LET sorted == sort_by_stack_order_ties_reversed(
                           SubSeq(result, 1, Len(result) - 1))
             c == result[Len(result)]
             n == Cardinality({p \in 1..Len(sorted) :
                                sorted[p].stack_order < c.stack_order})
         IN  SubSeq(sorted, 1, n) \o <<c>> \o SubSeq(sorted, n + 1, Len(sorted))

\* list.sort(key=lambda c: c.stack_order): a stable sort, each element
\* placed after the elements before it whose key is not greater.
RECURSIVE sort_by_stack_order(_)
sort_by_stack_order(result) ==
    IF result = <<>> THEN <<>>
    ELSE LET sorted == sort_by_stack_order(SubSeq(result, 1, Len(result) - 1))
             c == result[Len(result)]
             n == Cardinality({p \in 1..Len(sorted) :
                                sorted[p].stack_order <= c.stack_order})
         IN  SubSeq(sorted, 1, n) \o <<c>> \o SubSeq(sorted, n + 1, Len(sorted))

search_stacks(index, stage_pattern, stack_pattern) ==
    sort_by_stack_order(matching_stacks(index, stage_pattern, stack_pattern))

StagePatterns == {<<"*">>, <<"s", "1">>, <<"s", "?">>}
StackPatterns == {<<"*">>, <<"a", "*">>, <<"?", "2">>}

SearchStacks ==
    /\ pc \in {"loaded", "failed"}
    /\ \E stage_pattern \in StagePatterns, stack_pattern \in StackPatterns :
         ret' = [op |-> "search_stacks",
                 stage_pattern |-> stage_pattern,
                 stack_pattern |-> stack_pattern,
                 result |-> search_stacks(_stages, stage_pattern,
                                          stack_pattern)]
    /\ UNCHANGED <<config, heap, pc, _stages, stages, stacks, stage_idx,
                   stack_idx, blueprint, stack_config, new_config, err>>

(***************************************************************************)
(* StackConfig.to_boto3_format                                             *)
(***************************************************************************)
\* The policy documents are opaque texts.
CANNED_STACK_POLICIES ==
    P_ALLOW_ALL :> "{\"Statement\":[{\"Effect\":\"Allow\",\"Action\":\"Update:*\",\"Principal\":\"*\",\"Resource\":\"*\"}]}"
    @@ P_ALLOW_MODIFY :> "{\"Statement\":[{\"Effect\":\"Allow\",\"Action\":[\"Update:Modify\"],\"Principal\":\"*\",\"Resource\":\"*\"}]}"
    @@ P_DENY_DELETE :> "{\"Statement\":[{\"Effect\":\"Allow\",\"NotAction\":\"Update:Delete\",\"Principal\":\"*\",\"Resource\":\"*\"}]}"
    @@ P_DENY_ALL :> "{\"Statement\":[{\"Effect\":\"Deny\",\"Action\":\"Update:*\",\"Principal\":\"*\",\"Resource\":\"*\"}]}"

\* str(v) of an integer: its decimal digits.
RECURSIVE digits(_)
digits(n) ==
    IF n < 10 THEN <<DigitChars[n + 1]>>
    ELSE digits(n \div 10) \o <<DigitChars[(n % 10) + 1]>>

str(n) == IF n < 0 THEN <<"-">> \o digits(-n) ELSE digits(n)

_normalize_value(v) ==
    IF v.type = "bool"
    THEN PyStr(IF v.b THEN <<"t", "r", "u", "e">>
               ELSE <<"f", "a", "l", "s", "e">>)
    ELSE IF v.type = "int" THEN PyStr(str(v.i))
    ELSE v

\* str.startswith
startswith(s, prefix) ==
    /\ Len(s) >= Len(prefix)
    /\ SubSeq(s, 1, Len(prefix)) = prefix

\* The characters of the model in code point order.
CodePoints ==
    <<"*", "-", ".", "/", "0", "1", "2", "3", "4", "5", "6", "7", "8", "9",
      ":", "?", "A", "B", "C", "a", "b", "c", "d", "e", "g", "h", "n", "o",
      "p", "s", "t", "u", "v", "w", "x", "y">>

ord(ch) == CHOOSE n \in 1..Len(CodePoints) : CodePoints[n] = ch

\* s < t on Python strings.
RECURSIVE str_lt(_, _)
str_lt(s, t) ==
    IF t = <<>> THEN FALSE
    ELSE IF s = <<>> THEN TRUE
    ELSE IF Head(s) = Head(t) THEN str_lt(Tail(s), Tail(t))
    ELSE ord(Head(s)) < ord(Head(t))

\* sorted(six.iteritems(mapping)): the keys in ascending order (the keys of
\* a dict are distinct, so the values never decide).
RECURSIVE sorted_keys(_)
sorted_keys(keys) ==
    IF keys = {} THEN <<>>
    ELSE LET least == CHOOSE k \in keys :
                        \A o \in keys \ {k} : str_lt(k, o)
         IN  <<least>> \o sorted_keys(keys \ {least})

Cwd == <<"/", "w">>

\* os.path.join of two components.
path_join(a, b) ==
    IF b # <<>> /\ Head(b) = "/" THEN b
    ELSE IF a = <<>> \/ a[Len(a)] = "/" THEN a \o b
    ELSE a \o <<"/">> \o b

\* os.path.realpath of a path without symbolic links or dot segments.
realpath(path) ==
    IF path # <<>> /\ Head(path) = "/" THEN path ELSE path_join(Cwd, path)

\* The files of the working directory.
Files == {realpath(path_join(dirname(Filename), t)) :
            t \in {T_local, T_other, T_httpd}}

\* fp.read(): the text of the file.
file_contents(path) == <<"#">> \o realpath(path)

\* to_boto3_format on the StackConfig c, the objects being h: how the call
\* ends, what it returns and which files it opened.
to_boto3_format(c, h) ==
    LET properties == c.properties
        StackName == IF properties["StackName"] = None
                     THEN PyStr(c.stack_id)
                     ELSE properties["StackName"]
        Package == properties["Package"]
        metadata == PyDict([Profile |-> properties["Profile"],
                            Region |-> properties["Region"],
                            Package |-> Package,
                            ArtifactStore |-> properties["ArtifactStore"],
                            Order |-> PyInt(c.stack_order)])
        Template == properties["Template"]
        is_url == startswith(Template.s, <<"h", "t", "t", "p", "s">>)
                  \/ startswith(Template.s, <<"h", "t", "t", "p">>)
        path == path_join(c.basedir, Template.s)
        opened == IF is_url \/ Truthy(Package) THEN <<>> ELSE <<path>>
        TemplateURL == IF is_url THEN Template
                       ELSE IF Truthy(Package) THEN PyStr(realpath(path))
                       ELSE None
        TemplateBody == IF is_url \/ Truthy(Package) THEN None
                        ELSE PyStr(file_contents(path))
        StackPolicy == properties["StackPolicy"]
        StackPolicyBody ==
            IF StackPolicy = None THEN None
            ELSE [type |-> "str",
                  text |-> CANNED_STACK_POLICIES[StackPolicy.s]]
        Parameters == Deref(properties["Parameters"], h)
        normalized_params ==
            IF Parameters.type = "dict" /\ Parameters.map # EmptyMap
            THEN LET keys == sorted_keys(DOMAIN Parameters.map)
                 IN  PyList([n \in 1..Len(keys) |->
                        [ParameterKey |-> PyStr(keys[n]),
                         ParameterValue |->
                            _normalize_value(Parameters.map[keys[n]])]])
            ELSE None
        Tags == Deref(properties["Tags"], h)
        normalized_tags ==
            IF Tags.type = "dict" /\ Tags.map # EmptyMap
            THEN LET keys == sorted_keys(DOMAIN Tags.map)
                 IN  PyList([n \in 1..Len(keys) |->
                        [Key |-> PyStr(keys[n]),
                         Value |-> Tags.map[keys[n]]]])
            ELSE None
        normalized_config ==
            [Metadata |-> metadata,
             StackName |-> StackName,
             TemplateURL |-> TemplateURL,
             TemplateBody |-> TemplateBody,
             DisableRollback |-> properties["DisableRollback"],
             RollbackConfiguration |->
                Deref(properties["RollbackConfiguration"], h),
             TimeoutInMinutes |-> properties["TimeoutInMinutes"],
             NotificationARNs |-> Deref(properties["NotificationARNs"], h),
             Capabilities |-> Deref(properties["Capabilities"], h),
             ResourceTypes |-> Deref(properties["ResourceTypes"], h),
             RoleARN |-> properties["RoleARN"],
             OnFailure |-> properties["OnFailure"],
             StackPolicyBody |-> StackPolicyBody,
             Parameters |-> normalized_params,
             Tags |-> normalized_tags,
             ClientRequestToken |-> properties["ClientRequestToken"],
             EnableTerminationProtection |->
                properties["EnableTerminationProtection"]]
        kept == {k \in DOMAIN normalized_config : normalized_config[k] # None}
    IN  IF Template = None
        THEN [status |-> "AttributeError", opened |-> <<>>,
              value |-> EmptyMap]
        ELSE IF opened # <<>> /\ realpath(path) \notin Files
        THEN [status |-> "IOError", opened |-> opened, value |-> EmptyMap]
        ELSE IF StackPolicy # None
                /\ StackPolicy.s \notin DOMAIN CANNED_STACK_POLICIES
        THEN [status |-> "ConfigError", opened |-> opened,
              value |-> EmptyMap]
        ELSE [status |-> "ok", opened |-> opened,
              value |-> [k \in kept |-> normalized_config[k]]]

ToBoto3Format ==
    /\ pc = "loaded"
    /\ \E i \in 1..Len(_stages) : \E j \in 1..Len(_stages[i].stacks) :
         LET c == _stages[i].stacks[j]
             r == to_boto3_format(c, heap)
         IN  ret' = [op |-> "to_boto3_format", self |-> c,
                     status |-> r.status, opened |-> r.opened,
                     value |-> r.value]
    /\ UNCHANGED <<config, heap, pc, _stages, stages, stacks, stage_idx,
                   stack_idx, blueprint, stack_config, new_config, err>>

Next ==
    \/ SearchStacks
    \/ ToBoto3Format
    \/ Load
    \/ StageBegin
    \/ StackBegin
    \/ UpdateBlueprint
    \/ UpdateStack
    \/ StoreStack
    \/ StageEnd
    \/ LoadReturn

Spec == Init /\ [][Next]_vars

(***************************************************************************)
(* Vocabulary of the properties.                                           *)
(***************************************************************************)
ListProperties == {"ResourceTypes", "NotificationARNs"}
MappingProperties == {"Parameters", "Tags", "RollbackConfiguration"}
ScalarProperties ==
    PropertyNames \ (ListProperties \cup MappingProperties
                     \cup {"Capabilities"})

\* The layer the pending update call merges.
Params == IF pc = "update_blueprint" THEN blueprint ELSE stack_config

\* A call of update is taken.
UpdateStep == pc \in {"update_blueprint", "update_stack"} /\ pc' # pc

\* The value of property k of the StackConfig c, objects read through.
Effective(c, k) == Deref(c.properties[k], heap)

\* The stack that is written at stage i, position j of the document.
WrittenStack(i, j) == config.Stages[i].stacks[j].raw

\* The properties of the blueprint the written stack extends, as written.
WrittenBlueprint(i, j) ==
    LET raw == WrittenStack(i, j)
    IN  IF "Extends" \in DOMAIN raw
           /\ raw["Extends"].s \in DOMAIN config.Blueprints
        THEN config.Blueprints[raw["Extends"].s]
        ELSE EmptyMap

\* The positions of the stacks of the index.
AllStacks ==
    UNION {{<<i, j>> : j \in 1..Len(_stages[i].stacks)} :
           i \in 1..Len(_stages)}

\* C1: after a load every stack's effective configuration is the merge of
\* its blueprint's properties as written in the document and then its own
\* properties, whatever other stacks were loaded, and no blueprint
\* definition has changed.
C1_StacksAreIndependent ==
    pc = "loaded" =>
        /\ \A l \in DOMAIN heap :
             l.stage = 0 => heap[l] = ParsedObjects(config)[l]
        /\ \A <<i, j>> \in AllStacks :
             LET parsed == ParsedObjects(config)
                 raw == WrittenStack(i, j)
                 ext == IF "Extends" \in DOMAIN raw THEN raw["Extends"].s
                        ELSE <<>>
                 u1 == update([k \in PropertyNames |-> None],
                              Live(WrittenBlueprint(i, j), ext, 0, 0),
                              parsed)
                 u2 == update(u1.properties,
                              Live(popped(popped(raw, "Extends"), "Order"),
                                   <<>>, i, j),
                              u1.heap)
             IN  \A k \in PropertyNames :
                    Effective(_stages[i].stacks[j], k)
                        = Deref(u2.properties[k], u2.heap)

\* C2: an update that carries ResourceTypes or NotificationARNs onto a
\* configuration where that property is set leaves it equal to the existing
\* items followed by the incoming items.
C2_ListsAreAppended ==
    [][UpdateStep =>
        \A k \in ListProperties :
            (k \in DOMAIN Params /\ new_config.properties[k] # None) =>
                Deref(new_config'.properties[k], heap').items
                    = Effective(new_config, k).items
                      \o Deref(Params[k], heap).items]_vars

\* C3: an update that carries a mapping property onto a configuration where
\* that property is set leaves a mapping over the union of the two key sets,
\* with the incoming value for every incoming key and the existing value
\* for every other key.
C3_MappingsAreMergedByKey ==
    [][UpdateStep =>
        \A k \in MappingProperties :
            (k \in DOMAIN Params /\ new_config.properties[k] # None) =>
                LET existing == Effective(new_config, k).map
                    incoming == Deref(Params[k], heap).map
                    merged == Deref(new_config'.properties[k], heap').map
                IN  /\ DOMAIN merged = DOMAIN existing \cup DOMAIN incoming
                    /\ \A key \in DOMAIN incoming :
                         merged[key] = incoming[key]
                    /\ \A key \in DOMAIN existing \ DOMAIN incoming :
                         merged[key] = existing[key]]_vars

\* A stack whose blueprint {A:1,B:2} and own {B:3,C:4} were merged into
\* {A:1,B:3,C:4}.
C3_Witness ==
    /\ pc = "store"
    /\ \E k \in MappingProperties :
         /\ k \in DOMAIN blueprint
         /\ k \in DOMAIN stack_config
         /\ Effective(new_config, k).map
              = (<<"A">> :> PyInt(1) @@ <<"B">> :> PyInt(3)
                 @@ <<"C">> :> PyInt(4))

\* C4: the effective value of a scalar property is the value of the last
\* layer that carries it: the stack's if the stack carries it, else the
\* blueprint's if the blueprint carries it, else none.
C4_ScalarLastWriterWins ==
    \A <<i, j>> \in AllStacks : \A k \in ScalarProperties :
        _stages[i].stacks[j].properties[k]
            = IF k \in DOMAIN WrittenStack(i, j) THEN WrittenStack(i, j)[k]
              ELSE IF k \in DOMAIN WrittenBlueprint(i, j)
              THEN WrittenBlueprint(i, j)[k]
              ELSE None

\* A loaded stack whose scalar differs from its blueprint's, and another
\* that only its blueprint gave a value.
C4_Witness ==
    /\ pc = "loaded"
    /\ \E k \in ScalarProperties :
         /\ \E <<i, j>> \in AllStacks :
              /\ k \in DOMAIN WrittenStack(i, j)
              /\ k \in DOMAIN WrittenBlueprint(i, j)
              /\ WrittenStack(i, j)[k] # WrittenBlueprint(i, j)[k]
              /\ _stages[i].stacks[j].properties[k] = WrittenStack(i, j)[k]
         /\ \E <<i, j>> \in AllStacks :
              /\ k \notin DOMAIN WrittenStack(i, j)
              /\ k \in DOMAIN WrittenBlueprint(i, j)
              /\ _stages[i].stacks[j].properties[k]
                   = WrittenBlueprint(i, j)[k]

\* C5: the effective Capabilities is the list of the last layer that
\* carries it, never a concatenation.
C5_CapabilitiesAreReplaced ==
    \A <<i, j>> \in AllStacks :
        Effective(_stages[i].stacks[j], "Capabilities")
            = IF "Capabilities" \in DOMAIN WrittenStack(i, j)
              THEN WrittenStack(i, j)["Capabilities"]
              ELSE IF "Capabilities" \in DOMAIN WrittenBlueprint(i, j)
              THEN WrittenBlueprint(i, j)["Capabilities"]
              ELSE None

\* A loaded stack with CAPABILITY_NAMED_IAM over a blueprint with
\* CAPABILITY_IAM.
C5_Witness ==
    /\ pc = "loaded"
    /\ \E <<i, j>> \in AllStacks :
         /\ "Capabilities" \in DOMAIN WrittenBlueprint(i, j)
         /\ WrittenBlueprint(i, j)["Capabilities"]
              = PyList(<<"CAPABILITY_IAM">>)
         /\ Effective(_stages[i].stacks[j], "Capabilities")
              = PyList(<<"CAPABILITY_NAMED_IAM">>)
\* A name matches a pattern of literal characters, "?" and "*" when the
\* name can be cut into one piece per pattern character: any piece for "*",
\* one character for "?", the character itself for a literal.
GlobMatches(name, pat) ==
    \E cut \in [0..Len(pat) -> 0..Len(name)] :
        /\ cut[0] = 0
        /\ cut[Len(pat)] = Len(name)
        /\ \A p \in 1..Len(pat) :
             /\ cut[p - 1] <= cut[p]
             /\ \/ pat[p] = "*"
                \/ /\ cut[p] = cut[p - 1] + 1
                   /\ pat[p] = "?" \/ name[cut[p]] = pat[p]

\* The position of the StackConfig c in the index.
Position(c) == CHOOSE <<i, j>> \in AllStacks : _stages[i].stacks[j] = c

\* c is met before d when the index is iterated stage by stage.
Before(c, d) ==
    \/ Position(c)[1] < Position(d)[1]
    \/ Position(c)[1] = Position(d)[1] /\ Position(c)[2] < Position(d)[2]

\* C6: search_stacks returns exactly the stacks whose stage and stack
\* identifiers match the patterns, each once, ascending by stack_order, two
\* stacks of equal order in the order the index is iterated.
C6_SearchIsExactSortedAndStable ==
    ret.op = "search_stacks" =>
        LET result == ret.result
            matching == {_stages[x[1]].stacks[x[2]] : x \in
                           {<<i, j>> \in AllStacks :
                              /\ GlobMatches(_stages[i].id, ret.stage_pattern)
                              /\ GlobMatches(_stages[i].stacks[j].stack_id,
                                             ret.stack_pattern)}}
        IN  /\ {result[n] : n \in 1..Len(result)} = matching
            /\ Len(result) = Cardinality(matching)
            /\ \A m, n \in 1..Len(result) :
                 m < n =>
                    /\ result[m].stack_order <= result[n].stack_order
                    /\ result[m].stack_order = result[n].stack_order
                         => Before(result[m], result[n])

\* A search that moved a stack forward past a stack met earlier and
\* returned two stacks of equal order.
C6_Witness ==
    /\ ret.op = "search_stacks"
    /\ \E m, n \in 1..Len(ret.result) :
         /\ m < n
         /\ Before(ret.result[n], ret.result[m])
    /\ \E m, n \in 1..Len(ret.result) :
         /\ m < n
         /\ ret.result[m].stack_order = ret.result[n].stack_order

\* Some stack's Extends is present and names no blueprint.
DanglingExtends ==
    \E i \in 1..Len(config.Stages) :
        \E j \in 1..Len(config.Stages[i].stacks) :
            /\ "Extends" \in DOMAIN WrittenStack(i, j)
            /\ WrittenStack(i, j)["Extends"].s \notin DOMAIN config.Blueprints

\* C7: a document with a stack whose Extends is present and names no
\* blueprint never loads; the failed load raises ConfigError naming the
\* blueprint and leaves the stage index without any stack of the document.
C7_DanglingExtendsFailsTheLoad ==
    /\ DanglingExtends => pc # "loaded"
    /\ pc = "failed" =>
         /\ DanglingExtends
         /\ err.type = "ConfigError"
         /\ err.s \notin DOMAIN config.Blueprints
         /\ _stages = <<>>

S_http == <<"h", "t", "t", "p", ":", "/", "/">>
S_https == <<"h", "t", "t", "p", "s", ":", "/", "/">>

\* C8: a template that starts with http:// or https:// becomes the remote
\* reference verbatim and nothing is read; any other template with Package
\* true becomes an absolute path and nothing is read; any other template is
\* read and carried inline; never a reference and inline content together.
C8_TemplateResolution ==
    (ret.op = "to_boto3_format" /\ ret.self.properties["Template"] # None) =>
        LET t == ret.self.properties["Template"].s
            remote == startswith(t, S_http) \/ startswith(t, S_https)
            package == ret.self.properties["Package"] = PyBool(TRUE)
            path == path_join(ret.self.basedir, t)
            ok == ret.status = "ok"
            url == "TemplateURL" \in DOMAIN ret.value
            body == "TemplateBody" \in DOMAIN ret.value
        IN  /\ ~(url /\ body)
            /\ remote =>
                 /\ ret.opened = <<>>
                 /\ ok => url /\ ret.value["TemplateURL"] = PyStr(t)
            /\ (~remote /\ package) =>
                 /\ ret.opened = <<>>
                 /\ ok => /\ url
                          /\ Head(ret.value["TemplateURL"].s) = "/"
            /\ (~remote /\ ~package) =>
                 /\ ret.opened = <<path>>
                 /\ ok => /\ body
                          /\ ret.value["TemplateBody"]
                               = PyStr(file_contents(path))

\* C9: Parameters and Tags are each projected to one entry per key,
\* ascending by key, a boolean as "true" or "false", an integer as its
\* decimal string, any other value unchanged.
C9_ParametersAndTagsAreNormalized ==
    (ret.op = "to_boto3_format" /\ ret.status = "ok") =>
        \A f \in {"Parameters", "Tags"} :
            LET m == Effective(ret.self, f)
            IN  (m # None /\ m.map # EmptyMap) =>
                /\ f \in DOMAIN ret.value
                /\ LET entries == ret.value[f].items
                       key(n) == IF f = "Parameters"
                                 THEN entries[n].ParameterKey.s
                                 ELSE entries[n].Key.s
                       val(n) == IF f = "Parameters"
                                 THEN entries[n].ParameterValue
                                 ELSE entries[n].Value
                   IN  /\ Len(entries) = Cardinality(DOMAIN m.map)
                       /\ {key(n) : n \in 1..Len(entries)} = DOMAIN m.map
                       /\ \A n \in 1..(Len(entries) - 1) :
                            str_lt(key(n), key(n + 1))
                       /\ \A n \in 1..Len(entries) :
                            LET v == m.map[key(n)]
                            IN  /\ v.type \in {"bool", "int"} =>
                                     val(n).type = "str"
                                /\ v.type = "bool" =>
                                     val(n).s = IF v.b
                                                THEN <<"t", "r", "u", "e">>
                                                ELSE <<"f", "a", "l", "s",
                                                       "e">>
                                /\ v.type = "int" => val(n).s = str(v.i)
                                /\ v.type \notin {"bool", "int"} =>
                                     val(n) = v

\* The fields of the request that property k is projected to.
RequestFields(k) ==
    CASE k = "Template" -> {"TemplateURL", "TemplateBody"}
      [] k = "StackPolicy" -> {"StackPolicyBody"}
      [] k \in {"Profile", "Region", "Package", "ArtifactStore",
                "StackName"} -> {}
      [] OTHER -> {k}

\* C10: the request has no field for a property that neither layer set,
\* and none of its fields, nor of the fields of Metadata, is null or an
\* empty list.
C10_OnlySetFieldsAppear ==
    (ret.op = "to_boto3_format" /\ ret.status = "ok") =>
        LET at == Position(ret.self)
            unset == {k \in PropertyNames :
                        /\ k \notin DOMAIN WrittenStack(at[1], at[2])
                        /\ k \notin DOMAIN WrittenBlueprint(at[1], at[2])}
        IN  /\ \A k \in unset : RequestFields(k) \cap DOMAIN ret.value = {}
            /\ \A f \in DOMAIN ret.value :
                 /\ ret.value[f] # None
                 /\ ret.value[f] # PyList(<<>>)
            /\ \A f \in DOMAIN ret.value["Metadata"].map :
                 /\ ret.value["Metadata"].map[f] # None
                 /\ ret.value["Metadata"].map[f] # PyList(<<>>)
====
